---- MODULE Spec2Model ----
(***************************************************************************)
(* Model of the port monitor's auto-refresh session loop                   *)
(* (InteractivePortMonitor.interactive_monitor and                         *)
(* FreeThreadingPortMonitor.quick_view) and of the kill_process variants.  *)
(***************************************************************************)
EXTENDS Integers, Sequences, FiniteSets, TLC

(* ------------------------------ bounds --------------------------------- *)
MaxLevel == 5    \* ancestor levels of a working directory (0 is the directory)
MaxRecs == 2
MaxInput == 1
Interval == 1
MaxLines == 2
MaxCycles == 2

(* --------------------------- value universes --------------------------- *)
NoPid == 0
NoKey == "none"
Ports == {1, 2}
Pids == {1, 2}
Digits == {"0", "1", "2"}
Letters == {"q", "r", "h", "u", "s", "x"}
\* letters typed into a prompt: quit, refresh and one other command letter
PromptLetters == {"q", "r", "h"}
Keys == Digits \cup Letters \cup {"enter", "esc", "bs"}
\* the records a scan can return: one process on both ports, a second process
\* on port 2, and a socket whose line names no process
Records == {[port |-> 1, pid |-> 1], [port |-> 2, pid |-> 1],
            [port |-> 2, pid |-> 2], [port |-> 1, pid |-> NoPid]}
SeqsUpTo(S, n) == UNION {[1..m -> S] : m \in 0..n}
ScanResults == SeqsUpTo(Records, MaxRecs)
Variants == {"interactive", "freethreading"}

VARIABLES
    variant,       \* which session loop runs
    pc,            \* "start", "idle", a prompt, "loop_end", "done"
    is_terminal,   \* local is_terminal
    old_settings,  \* TRUE when termios.tcgetattr returned the saved settings
    term_mode,     \* mode of the controlling terminal: "orig" or "cbreak"
    ports_info,    \* last scan result
    visible_ports, \* quick_view's local visible_ports (interactive: what was last drawn)
    drawn,         \* history: the rows of the table last rendered, in their order
    hidden,        \* hidden_ports (interactive) / hidden_pids (freethreading)
    countdown,
    since,         \* seconds since last_update, capped at Interval
    user_input,    \* the key that opened the prompt
    input_text,    \* get_multi_char_input's input_text
    typed,         \* history: digits typed since the loop left Idle and not erased since
    erased,        \* history: a backspace was pressed in the current prompt
    ev,            \* history: what the last loop step did
    exit_kind,     \* history: how the session ended
    hid_ports,     \* history: ports hidden by the hide command and not shown again
    quit_typed,    \* a 'q' typed in Idle waits in stdin (liveness specification)
    kp,            \* state of one kill_process call (second specification)
    sc,            \* state of the scan pipeline (third specification)
    nr,            \* calls of the name resolver (fourth specification)
    ro             \* state of one run_once call (fifth specification)

vars == <<variant, pc, is_terminal, old_settings, term_mode, ports_info,
          visible_ports, drawn, hidden, countdown, since, user_input, input_text,
          typed, erased, ev, exit_kind, hid_ports, quit_typed, kp, sc, nr, ro>>

(* ------------------------- pure helper functions ----------------------- *)
Min(a, b) == IF a < b THEN a ELSE b

IsDigit(c) == c \in Digits
IsAlpha(c) == c \in Letters

\* int(<digit string>): str.isdigit() then int() in base 10
DigitVal(c) == CASE c = "0" -> 0 [] c = "1" -> 1 [] c = "2" -> 2 [] c = "3" -> 3
                   [] c = "4" -> 4 [] c = "5" -> 5 [] c = "6" -> 6 [] c = "7" -> 7
                   [] c = "8" -> 8 [] c = "9" -> 9

RECURSIVE DecVal(_)
DecVal(s) == IF s = <<>> THEN 0
             ELSE DecVal(SubSeq(s, 1, Len(s) - 1)) * 10 + DigitVal(s[Len(s)])

\* sorted(xs, key=lambda x: x['port']) : stable, ascending
RECURSIVE InsertByPort(_, _)
InsertByPort(r, s) ==
    IF s = <<>> THEN <<r>>
    ELSE IF r.port < s[1].port THEN <<r>> \o s
         ELSE <<s[1]>> \o InsertByPort(r, Tail(s))

RECURSIVE SortedAsc(_)
SortedAsc(s) == IF s = <<>> THEN <<>>
                ELSE InsertByPort(s[Len(s)], SortedAsc(SubSeq(s, 1, Len(s) - 1)))

Unsorted(s) == s

SortByPort(s) == SortedAsc(s)

\* [p for p in ports_info if p[key] not in hidden]
KeyIsPid(v, r) == r.pid

HiddenKey(v, r) == IF v = "interactive" THEN r.port ELSE r.pid
FilterHidden(v, ps, h) == SelectSeq(ps, LAMBDA r : HiddenKey(v, r) \notin h)

\* 0 <= idx < len(visible_ports), idx = int(kill_input) - 1
InRangeNoLower(k, n) == k - 1 < n
InRange(k, n) == 0 <= k - 1 /\ k - 1 < n

\* Python indexing sorted_ports[idx] (a negative idx counts from the end)
PyIndex(s, idx) == IF idx >= 0 THEN s[idx + 1] ELSE s[Len(s) + idx + 1]

(* ------------------------- terminal-mode handling ---------------------- *)
\* the finally clause: if old_settings: termios.tcsetattr(..., old_settings)
RestoreOnQuitOnly(old, mode, how) == IF old /\ how = "quit" THEN "orig" ELSE mode

RestoreMode(old, mode, how) == IF old THEN "orig" ELSE mode

\* outcomes of isatty() / tcgetattr() / setcbreak() at the top of the session
SetupOutcomes == {"tty_ok", "not_a_tty", "getattr_fails", "setcbreak_fails"}

\* is_terminal after the try/except around tcgetattr and setcbreak
ExceptKeepsTerminal(o) == o # "not_a_tty"

IsTerminalAfter(o) == o = "tty_ok"

(* ----------------------------- history record -------------------------- *)
NoEv == [kind |-> "none", by |-> "none", key |-> NoKey, k |-> -1, killed |-> <<>>,
         kret |-> TRUE, err |-> FALSE, redraw |-> FALSE, rescan |-> FALSE]

Ev(kind, by) == [NoEv EXCEPT !.kind = kind, !.by = by]


(* ------------------------------ loop head ------------------------------ *)
\* interactive_monitor 265-280 / quick_view 725-755: refresh check and countdown
HeadScans == IF since >= Interval THEN ScanResults ELSE {ports_info}

\* the refresh triggered by the countdown having run out
LoopHeadByCountdown(s) ==
    IF countdown = 0
    THEN [skip |-> FALSE, ports |-> s, vis |-> FilterHidden(variant, s, hidden),
          since |-> 0, cd |-> Interval - 1, refreshed |-> TRUE]
    ELSE [skip |-> FALSE, ports |-> ports_info, vis |-> visible_ports,
          since |-> since, cd |-> countdown - 1, refreshed |-> FALSE]

LoopHead(s) ==
    IF since >= Interval
    THEN IF variant = "freethreading" /\ FilterHidden(variant, s, hidden) = <<>>
            /\ hidden = {}
         THEN [skip |-> TRUE, ports |-> s, vis |-> <<>>, since |-> since,
               cd |-> countdown, refreshed |-> FALSE]
         ELSE [skip |-> FALSE, ports |-> s, vis |-> FilterHidden(variant, s, hidden),
               since |-> 0, cd |-> Interval - 1, refreshed |-> TRUE]
    ELSE [skip |-> FALSE, ports |-> ports_info, vis |-> visible_ports,
          since |-> since, cd |-> IF countdown > 0 THEN countdown - 1 ELSE countdown,
          refreshed |-> FALSE]

\* display_ports_with_actions: enumerate(sorted(..., key=lambda x: x['port']), 1)
ScanOrder(s) == s

DisplayOrder(s) == SortedAsc(s)

\* the table is drawn by the loop head only when it refreshed
HeadDraw(h) == drawn' = IF h.refreshed THEN DisplayOrder(h.vis) ELSE drawn

\* time consumed by get_non_blocking_input(1): a whole second when no key came
Elapse(t, dt) == Min(t + dt, Interval)

PromptIdle == /\ user_input' = NoKey
              /\ input_text' = <<>>
              /\ typed' = <<>>
              /\ erased' = FALSE

SessionConst == UNCHANGED <<variant, is_terminal, old_settings, quit_typed,
                             kp, sc, nr, ro>>

(* ------------------------------- actions ------------------------------- *)
\* entry of interactive_monitor / quick_view (with main's first scan)
Setup ==
    /\ pc = "start"
    /\ \E o \in SetupOutcomes, s \in ScanResults :
        /\ is_terminal' = IsTerminalAfter(o)
        /\ old_settings' = (o \in {"tty_ok", "setcbreak_fails"})
        /\ term_mode' = IF o = "tty_ok" THEN "cbreak" ELSE "orig"
        /\ ports_info' = s
        /\ visible_ports' = FilterHidden(variant, s, hidden)
        /\ drawn' = DisplayOrder(FilterHidden(variant, s, hidden))
        /\ since' = IF variant = "interactive" THEN Interval ELSE 0
    /\ countdown' = Interval
    /\ pc' = "idle"
    /\ ev' = Ev("setup", "none")
    /\ UNCHANGED <<variant, hidden, user_input, input_text, typed, erased,
                   exit_kind, hid_ports, quit_typed, kp, sc, nr, ro>>

\* leaving the try block: break, KeyboardInterrupt or an exception
Leave(how) ==
    /\ pc' = "done"
    /\ exit_kind' = how
    /\ term_mode' = RestoreMode(old_settings, term_mode, how)

\* one iteration with no key read (timeout of the 1 s poll, or no terminal)
Tick ==
    /\ pc = "idle"
    /\ \E s \in HeadScans :
        LET h == LoopHead(s) IN
        /\ ~h.skip
        /\ ports_info' = h.ports
        /\ visible_ports' = h.vis
        /\ HeadDraw(h)
        /\ countdown' = h.cd
        /\ since' = Elapse(h.since, 1)
        /\ ev' = [Ev("tick", "none") EXCEPT !.rescan = h.refreshed,
                                            !.redraw = h.refreshed]
    /\ pc' = "loop_end"
    /\ UNCHANGED <<term_mode, hidden, user_input, input_text, typed,
                   erased, exit_kind>>
    /\ UNCHANGED hid_ports
    /\ SessionConst

\* quick_view 732-737: nothing visible and nothing hidden: sleep(2); continue
SkipNoPorts ==
    /\ pc = "idle"
    /\ \E s \in HeadScans :
        LET h == LoopHead(s) IN
        /\ h.skip
        /\ ports_info' = h.ports
        /\ visible_ports' = h.vis
        /\ UNCHANGED drawn
        /\ ev' = [Ev("skip", "none") EXCEPT !.rescan = TRUE]
    /\ pc' = "loop_end"
    /\ UNCHANGED <<term_mode, hidden, countdown, since, user_input,
                   input_text, typed, erased, exit_kind>>
    /\ UNCHANGED hid_ports
    /\ SessionConst

\* 'q' read in Idle
KeyQuit ==
    /\ pc = "idle" /\ is_terminal
    /\ \E s \in HeadScans :
        LET h == LoopHead(s) IN
        /\ ~h.skip
        /\ ports_info' = h.ports
        /\ visible_ports' = h.vis
        /\ HeadDraw(h)
        /\ countdown' = h.cd
        /\ \E dt \in 0..1 : since' = Elapse(h.since, dt)
    /\ Leave("quit")
    /\ ev' = Ev("quit", "key")
    /\ UNCHANGED <<hidden, user_input, input_text, typed, erased>>
    /\ UNCHANGED hid_ports
    /\ SessionConst

\* 'r' read in Idle: rescan, redraw, restart the countdown
KeyRefresh ==
    /\ pc = "idle" /\ is_terminal
    /\ \E s \in HeadScans : ~LoopHead(s).skip
    /\ \E s2 \in ScanResults :
        /\ ports_info' = s2
        /\ visible_ports' = FilterHidden(variant, s2, hidden)
        /\ drawn' = DisplayOrder(FilterHidden(variant, s2, hidden))
    /\ since' = 0
    /\ countdown' = Interval
    /\ ev' = [Ev("refresh", "key") EXCEPT !.rescan = TRUE, !.redraw = TRUE]
    /\ pc' = "loop_end"
    /\ UNCHANGED <<term_mode, hidden, user_input, input_text, typed,
                   erased, exit_kind>>
    /\ UNCHANGED hid_ports
    /\ SessionConst

\* a key that opens a prompt: a digit (kill), 'h' (hide), 's' (show, interactive)
OpensPrompt(c) == \/ IsDigit(c)
                  \/ c = "h"
                  \/ c = "s" /\ variant = "interactive"

PromptOf(c) == IF IsDigit(c) THEN "kill_prompt"
               ELSE IF c = "h" THEN "hide_prompt" ELSE "show_prompt"

KeyOpenPrompt ==
    /\ pc = "idle" /\ is_terminal
    /\ \E s \in HeadScans :
        LET h == LoopHead(s) IN
        /\ ~h.skip
        /\ ports_info' = h.ports
        /\ visible_ports' = h.vis
        /\ HeadDraw(h)
        /\ countdown' = h.cd
        /\ \E dt \in 0..1 : since' = Elapse(h.since, dt)
    /\ \E c \in Keys :
        /\ OpensPrompt(c)
        /\ pc' = PromptOf(c)
        /\ user_input' = c
        /\ typed' = IF IsDigit(c) THEN <<c>> ELSE <<>>
    /\ input_text' = <<>>
    /\ erased' = FALSE
    /\ ev' = Ev("open_prompt", "key")
    /\ UNCHANGED <<term_mode, hidden, exit_kind>>
    /\ UNCHANGED hid_ports
    /\ SessionConst

\* 'u' read in Idle (interactive_monitor 320-327)
KeyUnhide ==
    /\ pc = "idle" /\ is_terminal /\ variant = "interactive"
    /\ \E s \in HeadScans :
        LET h == LoopHead(s) IN
        /\ ports_info' = h.ports
        /\ visible_ports' = IF hidden # {} THEN FilterHidden(variant, h.ports, {})
                                           ELSE h.vis
        /\ IF hidden # {}
           THEN drawn' = DisplayOrder(FilterHidden(variant, h.ports, {}))
           ELSE HeadDraw(h)
        /\ countdown' = Interval
        /\ \E dt \in 0..1 :
            since' = Elapse(h.since, dt + (IF hidden # {} THEN 1 ELSE 0))
    /\ hidden' = {}
    /\ hid_ports' = {}
    /\ ev' = [Ev("unhide", "key") EXCEPT !.key = "u", !.redraw = (hidden # {})]
    /\ pc' = "loop_end"
    /\ UNCHANGED <<term_mode, user_input, input_text, typed, erased,
                   exit_kind>>
    /\ SessionConst

\* any other key read in Idle matches no branch
IgnoredInIdle(c) == /\ ~OpensPrompt(c)
                    /\ c \notin {"q", "r"}
                    /\ ~(c = "u" /\ variant = "interactive")

KeyIgnored ==
    /\ pc = "idle" /\ is_terminal
    /\ \E c \in Keys, s \in HeadScans :
        LET h == LoopHead(s) IN
        /\ IgnoredInIdle(c)
        /\ ~h.skip
        /\ ports_info' = h.ports
        /\ visible_ports' = h.vis
        /\ HeadDraw(h)
        /\ countdown' = h.cd
        /\ \E dt \in 0..1 : since' = Elapse(h.since, dt)
        /\ ev' = [Ev("ignored", "key") EXCEPT !.key = c, !.rescan = h.refreshed,
                                               !.redraw = h.refreshed]
    /\ pc' = "loop_end"
    /\ UNCHANGED <<term_mode, hidden, user_input, input_text, typed,
                   erased, exit_kind>>
    /\ UNCHANGED hid_ports
    /\ SessionConst

(* --------------------- get_multi_char_input: the prompt ---------------- *)
Prompts == {"kill_prompt", "hide_prompt", "show_prompt"}

PromptKeep == UNCHANGED <<pc, term_mode, exit_kind, ports_info, visible_ports,
                          drawn, hidden, hid_ports, countdown, user_input>>

\* a digit is appended to input_text
PromptDigit ==
    /\ pc \in Prompts
    /\ Len(input_text) < MaxInput
    /\ \E c \in Digits :
        /\ input_text' = Append(input_text, c)
        /\ typed' = Append(typed, c)
    /\ ev' = NoEv
    /\ UNCHANGED <<since, erased>>
    /\ PromptKeep /\ SessionConst

\* backspace: if input_text: input_text = input_text[:-1]
PromptBackspace ==
    /\ pc \in Prompts
    /\ input_text' = IF input_text # <<>>
                     THEN SubSeq(input_text, 1, Len(input_text) - 1)
                     ELSE input_text
    /\ erased' = TRUE
    /\ typed' = IF typed # <<>> THEN SubSeq(typed, 1, Len(typed) - 1) ELSE typed
    /\ ev' = NoEv
    /\ UNCHANGED since
    /\ PromptKeep /\ SessionConst

\* a key no branch of the prompt loop matches; ESC is one in interactive_monitor
PromptIgnored ==
    /\ pc \in Prompts
    /\ variant = "interactive"
    /\ ev' = Ev("buffer", "esc")
    /\ UNCHANGED <<since, typed, erased, input_text>>
    /\ PromptKeep /\ SessionConst

\* a 0.1 s poll of the prompt returns no key: time passes
PromptWait ==
    /\ pc \in Prompts
    /\ since < Interval
    /\ since' = since + 1
    /\ ev' = NoEv
    /\ UNCHANGED <<typed, erased, input_text>>
    /\ PromptKeep /\ SessionConst

(* ----------------------- effects shared by the handlers ---------------- *)
BackToIdle == /\ pc' = "loop_end"
              /\ UNCHANGED <<term_mode, exit_kind>>
              /\ PromptIdle

Display(ps, h) == /\ visible_ports' = FilterHidden(variant, ps, h)
                  /\ drawn' = DisplayOrder(FilterHidden(variant, ps, h))

Rescan(h) == \E s \in ScanResults : ports_info' = s /\ Display(s, h)

\* kill_input: user_input + remaining_input, or user_input alone
FirstDigitOnly(first, rest) == <<first>>

KillInput(first, rest) == IF rest # <<>> THEN <<first>> \o rest ELSE <<first>>

\* the list a committed index is resolved against
CommitList == IF variant = "interactive"
              THEN FilterHidden(variant, ports_info, hidden)
              ELSE visible_ports

\* what follows kill_process(pid), given what it returned: its result only
\* selects a message, the sleep, rescan and redraw are unconditional
RescanIfKilled(ret) == IF ret THEN "rescan" ELSE "none"

AfterKill(ret) == "rescan"

\* interactive_monitor 375-400 / quick_view 856-901
CommitKill(ki, by) ==
    LET k == DecVal(ki)
        n == Len(CommitList)
        sorted == SortByPort(CommitList)
    IN
    IF InRange(k, n)
    THEN IF ~(0 - n <= k - 1 /\ k - 1 < n)
         THEN \* IndexError leaves the loop through the finally clause
              /\ Leave("crash")
              /\ ev' = [Ev("crash", by) EXCEPT !.k = k]
              /\ UNCHANGED <<ports_info, visible_ports, drawn, hidden, countdown, since,
                             user_input, input_text, typed, erased>>
         ELSE LET sel == PyIndex(sorted, k - 1) IN
              IF sel.pid # NoPid
              THEN \E ret \in BOOLEAN :  \* what kill_process returned
                     LET e == [Ev("kill", by) EXCEPT !.k = k, !.killed = <<sel.pid>>,
                                                     !.kret = ret, !.err = ~ret]
                     IN
                     IF AfterKill(ret) = "rescan"
                     THEN /\ ev' = [e EXCEPT !.rescan = TRUE, !.redraw = TRUE]
                          /\ Rescan(hidden)
                          /\ since' = 0
                          /\ countdown' = Interval
                          /\ UNCHANGED hidden
                          /\ BackToIdle
                     ELSE /\ ev' = e
                          /\ UNCHANGED <<ports_info, visible_ports, drawn, hidden,
                                         countdown, since>>
                          /\ BackToIdle
              ELSE IF variant = "interactive"
                   THEN /\ ev' = [Ev("nopid", by) EXCEPT !.k = k]
                        /\ UNCHANGED <<ports_info, visible_ports, drawn, hidden,
                                       countdown, since>>
                        /\ BackToIdle
                   ELSE /\ ev' = [Ev("nopid", by) EXCEPT !.k = k, !.err = TRUE,
                                     !.rescan = TRUE, !.redraw = TRUE]
                        /\ Rescan(hidden)
                        /\ since' = Elapse(since, 1)
                        /\ countdown' = Interval
                        /\ UNCHANGED hidden
                        /\ BackToIdle
    ELSE /\ ev' = [Ev("invalid", by) EXCEPT !.k = k, !.err = TRUE, !.redraw = TRUE,
                      !.rescan = (variant = "freethreading")]
         /\ IF variant = "interactive"
            THEN /\ UNCHANGED ports_info
                 /\ Display(ports_info, hidden)
            ELSE Rescan(hidden)
         /\ since' = Elapse(since, 1)
         /\ countdown' = Interval
         /\ UNCHANGED hidden
         /\ BackToIdle

\* get_multi_char_input: Enter and the expired timeout both break out of the
\* loop to the one `return input_text`
TimeoutReturnsEmpty(by, text) == IF by = "timeout" THEN <<>> ELSE text

ReturnedOnBreak(by, text) == IF by \in {"enter", "timeout"} THEN text ELSE <<>>

\* Enter or the timeout ends the kill prompt: input_text is returned
KillPromptCommit ==
    /\ pc = "kill_prompt"
    /\ \E by \in {"enter", "timeout"} :
        CommitKill(KillInput(user_input, ReturnedOnBreak(by, input_text)), by)
    /\ UNCHANGED hid_ports
    /\ SessionConst

\* ESC in quick_view's kill prompt: None is returned (816-830)
KillPromptEsc ==
    /\ pc = "kill_prompt"
    /\ variant = "freethreading"
    /\ Rescan(hidden)
    /\ countdown' = Interval
    /\ ev' = [Ev("esc", "esc") EXCEPT !.rescan = TRUE, !.redraw = TRUE]
    /\ UNCHANGED <<hidden, since>>
    /\ BackToIdle
    /\ UNCHANGED hid_ports
    /\ SessionConst

\* a letter ends the kill prompt and is returned (349-373 / 832-853)
KillPromptLetter ==
    /\ pc = "kill_prompt"
    /\ \E c \in PromptLetters :
        IF c = "q"
        THEN /\ Leave("quit")
             /\ ev' = Ev("quit", "letter")
             /\ UNCHANGED <<ports_info, visible_ports, drawn, hidden, countdown, since,
                            user_input, input_text, typed, erased>>
        ELSE IF c = "r"
        THEN /\ Rescan(hidden)
             /\ since' = 0
             /\ countdown' = Interval
             /\ ev' = [Ev("refresh", "letter") EXCEPT !.rescan = TRUE, !.redraw = TRUE]
             /\ UNCHANGED hidden
             /\ BackToIdle
        ELSE \* any other letter: kill_input = user_input
             CommitKill(KillInput(user_input, <<>>), "letter")
    /\ UNCHANGED hid_ports
    /\ SessionConst

\* the digits the prompt hands to a hide or show command: input_text on Enter
\* or timeout; a letter (a non-digit string) or ESC (None) gives none
EscReturnsText(by, text) == IF by \in {"enter", "timeout", "esc"} THEN text ELSE <<>>

PromptResult(by, text) == IF by \in {"enter", "timeout"} THEN text ELSE <<>>

\* the hide prompt returns (interactive_monitor 305-319 / quick_view 780-810)
HidePromptReturn ==
    /\ pc = "hide_prompt"
    /\ \E by \in {"enter", "timeout", "letter", "esc"} :
        /\ by = "esc" => variant = "freethreading"
        /\ LET text == PromptResult(by, input_text)
               k == DecVal(text)
               n == Len(CommitList)
               valid == text # <<>> /\ InRange(k, n)
               sel == PyIndex(SortByPort(CommitList), k - 1)
               key == HiddenKey(variant, sel)
               adds == valid /\ (variant = "interactive" \/ key # NoPid)
               h2 == IF adds THEN hidden \cup {key} ELSE hidden
               said == adds \/ (variant = "freethreading" /\ text # <<>>)
           IN
           /\ hidden' = h2
           /\ hid_ports' = IF adds THEN hid_ports \cup {sel.port} ELSE hid_ports
           /\ IF variant = "interactive"
              THEN /\ UNCHANGED ports_info
                   /\ Display(ports_info, h2)
              ELSE Rescan(h2)
           /\ since' = Elapse(since, IF said THEN 1 ELSE 0)
           /\ ev' = [Ev("hide", by) EXCEPT
                        !.k = IF text # <<>> THEN k ELSE -1,
                        !.err = (said /\ ~adds), !.redraw = TRUE,
                        !.rescan = (variant = "freethreading")]
    /\ countdown' = Interval
    /\ BackToIdle
    /\ SessionConst

\* if port_to_show in self.hidden_ports: self.hidden_ports.remove(port_to_show)
ShowClearsAll(h, p) == IF p \in h THEN {} ELSE h

ShowPort(h, p) == IF p \in h THEN h \ {p} ELSE h

\* the show prompt returns (interactive_monitor 333-342)
ShowPromptReturn ==
    /\ pc = "show_prompt"
    /\ \E by \in {"enter", "timeout", "letter"} :
        LET text == PromptResult(by, input_text)
            p == DecVal(text)
            removes == text # <<>> /\ p \in hidden
            h2 == IF text # <<>> THEN ShowPort(hidden, p) ELSE hidden
        IN
        /\ hidden' = h2
        /\ hid_ports' = IF removes THEN hid_ports \ {p} ELSE hid_ports
        /\ IF removes THEN Display(ports_info, h2) ELSE UNCHANGED <<visible_ports, drawn>>
        /\ since' = Elapse(since, IF removes THEN 1 ELSE 0)
        /\ ev' = [Ev("show", by) EXCEPT !.k = IF text # <<>> THEN p ELSE -1,
                                        !.redraw = removes]
    /\ countdown' = Interval
    /\ UNCHANGED ports_info
    /\ BackToIdle
    /\ SessionConst

\* Ctrl-C anywhere inside the try block: except KeyboardInterrupt, then finally
Interrupt ==
    /\ pc \in {"idle", "loop_end"} \cup Prompts
    /\ Leave("interrupt")
    /\ ev' = Ev("interrupt", "none")
    /\ UNCHANGED <<ports_info, visible_ports, drawn, hidden, countdown, since,
                   user_input, input_text, typed, erased>>
    /\ UNCHANGED hid_ports
    /\ SessionConst

\* any other exception raised inside the try block: finally, then it propagates
Crash ==
    /\ pc \in {"idle", "loop_end"} \cup Prompts
    /\ Leave("crash")
    /\ ev' = Ev("crash", "none")
    /\ UNCHANGED <<ports_info, visible_ports, drawn, hidden, countdown, since,
                   user_input, input_text, typed, erased>>
    /\ UNCHANGED hid_ports
    /\ SessionConst

\* the end of the loop body: control returns to the while test
LoopBack ==
    /\ pc = "loop_end"
    /\ pc' = "idle"
    /\ ev' = NoEv
    /\ UNCHANGED <<term_mode, exit_kind, ports_info, visible_ports, drawn, hidden,
                   countdown, since, user_input, input_text, typed, erased>>
    /\ UNCHANGED hid_ports
    /\ SessionConst

(* ------------------------------ kill_process --------------------------- *)
\* PortMonitor.kill_process ("basic": SIGTERM, grace period, SIGKILL) and the
\* kill_process(pid, force) of the other three monitors ("flagged")
SIGTERM == 15
SIGKILL == 9
GraceSeconds == 2

KpVariants == {"basic", "flagged"}

KpIdle == [pc |-> "off", variant |-> "flagged", force |-> FALSE, pid |-> 1,
           alive |-> FALSE, owned |-> FALSE, sent |-> <<>>, sudo |-> <<>>,
           refused |-> 0, waited |-> 0, seen_alive |-> FALSE,
           gone_seen |-> FALSE, ret |-> "none", console |-> <<>>]

\* the calls made: PortMonitor.kill_process(pid) has no force flag
KpCalls == {[KpIdle EXCEPT !.pc = "signal", !.variant = vf[1], !.force = vf[2],
                           !.pid = p, !.alive = a, !.owned = o] :
            vf \in {<<"basic", FALSE>>, <<"flagged", FALSE>>, <<"flagged", TRUE>>},
            p \in Pids, a \in BOOLEAN, o \in BOOLEAN}

\* what os.kill(pid, sig) answers
OsKill(k) == IF ~k.alive THEN "ESRCH" ELSE IF ~k.owned THEN "EPERM" ELSE "ok"

\* signal_type = signal.SIGKILL if force else signal.SIGTERM
FirstSignal(k) == IF k.variant = "flagged" /\ k.force THEN SIGKILL ELSE SIGTERM

\* except ProcessLookupError: ... return True
LookupErrorIsFailure == "false"

RetOnLookupError == "true"

\* after a delivered SIGTERM the basic monitor sleeps; the others return True
NoGrace(k) == IF k.variant = "basic" THEN "force" ELSE "ret"

AfterSignal(k) == IF k.variant = "basic" THEN "sleep" ELSE "ret"

\* the signal the sudo retry sends: -15 in the basic monitor, -{signal_type} elsewhere
SudoSignal(k) == IF k.variant = "basic" THEN SIGTERM ELSE FirstSignal(k)

(* what kill_process writes to the console: a message is the sequence of its
   pieces, numbers in decimal *)
sudo_password == "pw"

Str(n) == CASE n = 0 -> "0" [] n = 1 -> "1" [] n = 2 -> "2" [] n = 9 -> "9"
            [] n = 15 -> "15"

SignalName(sig) == IF sig = SIGKILL THEN "SIGKILL" ELSE "SIGTERM"

\* cmd = f"echo '{self.sudo_password}' | sudo -S kill -{signal_type} {pid}"
SudoCmd(k) == <<"echo", sudo_password, "|", "sudo", "-S", "kill", "-",
                Str(SudoSignal(k)), Str(k.pid)>>

\* str(CalledProcessError): "Command '<cmd>' returned non-zero exit status <rc>."
CalledProcessErrorStr(cmd) ==
    <<"Command">> \o cmd \o <<"returned non-zero exit status", "1">>

SentMsg(k, sig) ==
    IF k.variant = "basic" /\ sig = SIGKILL
    THEN <<"Force killed process", Str(k.pid)>>
    ELSE <<"Sent", SignalName(sig), "to process", Str(k.pid)>>

GoneMsg(k) == <<"Process", Str(k.pid), "already terminated">>

SudoOkMsg(k) == <<"Killed process", Str(k.pid), "with sudo">>

\* the basic monitor's bare except; the others' except Exception as e: ... {e}
SudoFailMsg(k) ==
    IF k.variant = "basic"
    THEN <<"Permission denied to kill process", Str(k.pid)>>
    ELSE <<"Error killing process", Str(k.pid)>> \o CalledProcessErrorStr(SudoCmd(k))

KpKeep == UNCHANGED <<variant, pc, is_terminal, old_settings, term_mode,
                      ports_info, visible_ports, drawn, hidden, countdown, since,
                      user_input, input_text, typed, erased, ev, exit_kind,
                      hid_ports, quit_typed, sc, nr, ro>>

\* the try block's first os.kill(pid, signal)
KpSignal ==
    /\ kp.pc = "signal"
    /\ LET a == OsKill(kp) IN
       kp' = IF a = "ESRCH"
             THEN [kp EXCEPT !.pc = "ret", !.gone_seen = TRUE, !.ret = RetOnLookupError,
                             !.console = Append(@, GoneMsg(kp))]
             ELSE IF a = "EPERM"
             THEN [kp EXCEPT !.pc = "sudo", !.refused = FirstSignal(kp)]
             ELSE [kp EXCEPT !.pc = AfterSignal(kp),
                             !.sent = Append(@, [sig |-> FirstSignal(kp), pid |-> kp.pid,
                                                 via |-> "direct"]),
                             !.ret = IF AfterSignal(kp) = "ret" THEN "true" ELSE @,
                             !.console = Append(@, SentMsg(kp, FirstSignal(kp)))]
    /\ KpKeep

\* time.sleep(2)
KpSleep ==
    /\ kp.pc = "sleep"
    /\ kp' = [kp EXCEPT !.pc = "check", !.waited = GraceSeconds]
    /\ KpKeep

\* if psutil.pid_exists(pid): ... ; return True
KpCheck ==
    /\ kp.pc = "check"
    /\ kp' = IF kp.alive
             THEN [kp EXCEPT !.pc = "force", !.seen_alive = TRUE]
             ELSE [kp EXCEPT !.pc = "ret", !.ret = "true"]
    /\ KpKeep

\* os.kill(pid, 9)
KpForce ==
    /\ kp.pc = "force"
    /\ LET a == OsKill(kp) IN
       kp' = IF a = "ESRCH"
             THEN [kp EXCEPT !.pc = "ret", !.gone_seen = TRUE, !.ret = RetOnLookupError,
                             !.console = Append(@, GoneMsg(kp))]
             ELSE IF a = "EPERM"
             THEN [kp EXCEPT !.pc = "sudo", !.refused = SIGKILL]
             ELSE [kp EXCEPT !.pc = "ret", !.ret = "true",
                             !.sent = Append(@, [sig |-> SIGKILL, pid |-> kp.pid,
                                                 via |-> "direct"]),
                             !.console = Append(@, SentMsg(kp, SIGKILL))]
    /\ KpKeep

\* except PermissionError: echo password | sudo -S kill -<sig> <pid>
KpSudo ==
    /\ kp.pc = "sudo"
    /\ \E ok \in BOOLEAN :
        /\ ok => kp.alive     \* kill(1) fails for a process that is gone
        /\ kp' = [kp EXCEPT !.pc = "ret",
                            !.sudo = Append(@, SudoSignal(kp)),
                            !.sent = IF ok
                                     THEN Append(@, [sig |-> SudoSignal(kp),
                                                     pid |-> kp.pid, via |-> "sudo"])
                                     ELSE @,
                            !.ret = IF ok THEN "true" ELSE "false",
                            !.console = Append(@, IF ok THEN SudoOkMsg(kp)
                                                        ELSE SudoFailMsg(kp))]
    /\ KpKeep

\* the target process exits (by itself, or because of a signal it received)
KpProcExit ==
    /\ kp.pc \notin {"off", "ret"}
    /\ kp.alive
    /\ kp' = [kp EXCEPT !.alive = FALSE]
    /\ KpKeep

\* the permission to signal the process changes (it changes credentials)
KpCredChange ==
    /\ kp.pc \notin {"off", "ret"}
    /\ kp.alive
    /\ kp' = [kp EXCEPT !.owned = ~@]
    /\ KpKeep

(* ----------------------------- scan pipeline --------------------------- *)
\* FreeThreadingPortMonitor.get_open_ports: one scan cycle after the other, in
\* sequential mode or in parallel mode, on a monitor that keeps _process_cache
start_port == 1
end_port == 2
NoPort == 0

\* a line of the ss output after the header: how many whitespace-separated
\* fields it has, whether it holds "[sudo]", the number after the last ':' of
\* field 4 (NoPort when there is none), the number after "pid=" (NoPid: none)
FullLine(p, q) == [fields |-> 6, sudo |-> FALSE, port |-> p, pid |-> q]
BlankLine == [fields |-> 0, sudo |-> FALSE, port |-> NoPort, pid |-> NoPid]
SudoLine == [fields |-> 6, sudo |-> TRUE, port |-> 1, pid |-> NoPid]
ShortLine == [fields |-> 5, sudo |-> FALSE, port |-> 1, pid |-> 1]
SsLines == {BlankLine, SudoLine, ShortLine, FullLine(NoPort, 1),
            FullLine(1, 1), FullLine(1, 2), FullLine(1, NoPid), FullLine(3, 1)}
SsOutputs == SeqsUpTo(SsLines, MaxLines)

\* the filter of the command line: sport >= :{port_range[0]} and sport <= :{port_range[1]}
FilterEndFixed == [lo |-> start_port, hi |-> 9000]

SsFilter == [lo |-> start_port, hi |-> end_port]

\* the loop over the lines, with its three continue statements
RECURSIVE ParseLines(_)
ParseLines(ls) ==
    IF ls = <<>> THEN <<>>
    ELSE LET l == Head(ls)
             rest == ParseLines(Tail(ls))
         IN IF l.fields = 0 \/ l.sudo THEN rest
            ELSE IF l.fields < 6 THEN rest
            ELSE IF l.port = NoPort THEN rest
            ELSE <<[port |-> l.port, pid |-> l.pid]>> \o rest

\* get_process_details_single: what psutil answers for the process
FetchOutcomes == {"ok", "gone", "denied", "error"}

RealDetails == [cwd |-> "cwd", memory |-> "MB", cpu |-> "%", user |-> "user"]

SentinelDetails == [cwd |-> "Unknown", memory |-> "N/A", cpu |-> "N/A", user |-> "N/A"]

\* except (psutil.NoSuchProcess, psutil.AccessDenied): return {...}
LookupFailureRaises == "raise"

OnLookupFailure == "sentinel"

\* any other exception leaves get_process_details_single
Raises(o) == o = "error" \/ (o # "ok" /\ OnLookupFailure = "raise")

\* process_info.get(field, default) with process_info = {}
DefaultDetails == [cwd |-> "Unknown", memory |-> "N/A", cpu |-> "N/A", user |-> "N/A"]

PortRecord(b, d) == [port |-> b.port, pid |-> b.pid, cwd |-> d.cwd,
                     memory |-> d.memory, cpu |-> d.cpu, user |-> d.user]

\* if result.returncode != 0: return []
KeepLastRecords(prev) == prev

FailedScan(prev) == <<>>

\* unique_pids = list(set(info["pid"] for info in basic_ports_info if info["pid"]))
UniquePids(basic) == {basic[i].pid : i \in 1..Len(basic)} \ {NoPid}

DictPut(d, k, v) == [x \in DOMAIN d \cup {k} |-> IF x = k THEN v ELSE d[x]]

EmptyDict == [x \in {} |-> 0]

\* main 954-958: use_parallel from --parallel / --sequential; a Python value
\* is named by its repr
Flags == {"none", "parallel", "sequential"}

MainUseParallel(flag) == IF flag = "parallel" THEN "True"
                         ELSE IF flag = "sequential" THEN "False" ELSE "None"

\* the argument the session's calls give get_open_ports: quick_view(interval)
\* takes no mode and every call in it is self.get_open_ports()
SessionUseParallel(flag) == "None"

\* get_open_ports 463-471: if use_parallel is None: use_parallel = self.gil_disabled
ScanMode(use_parallel, gil_disabled) ==
    IF use_parallel = "None"
    THEN IF gil_disabled THEN "parallel" ELSE "sequential"
    ELSE IF use_parallel = "True" THEN "parallel" ELSE "sequential"

ScIdle == [pc |-> "off", flag |-> "none", gil_disabled |-> FALSE,
           mode |-> "sequential", rcs |-> <<>>, lines |-> <<>>,
           basic |-> <<>>, built |-> <<>>, map |-> EmptyDict, cache |-> EmptyDict,
           fetches |-> [p \in Pids |-> 0], proc |-> [p \in Pids |-> "unknown"],
           done |-> {}, ports_info |-> <<>>]

ScKeep == UNCHANGED <<variant, pc, is_terminal, old_settings, term_mode,
                      ports_info, visible_ports, drawn, hidden, countdown, since,
                      user_input, input_text, typed, erased, ev, exit_kind,
                      hid_ports, quit_typed, kp, nr, ro>>

\* clear_process_cache: self._process_cache.clear()
CacheKept(cache) == cache

clear_process_cache(cache) == EmptyDict

\* get_open_ports: clear_process_cache(), then the chosen scan runs the command
ScStart ==
    /\ sc.pc = "idle"
    /\ Len(sc.rcs) < MaxCycles
    /\ \E rc \in 0..1, out \in SsOutputs :
        /\ rc # 0 => out = <<>>
        /\ sc' = [sc EXCEPT !.pc = "ran", !.rcs = Append(@, rc), !.lines = out,
                            !.mode = ScanMode(SessionUseParallel(sc.flag),
                                              sc.gil_disabled),
                            !.cache = clear_process_cache(@), !.map = EmptyDict,
                            !.basic = <<>>, !.built = <<>>,
                            !.fetches = [p \in Pids |-> 0],
                            !.proc = [p \in Pids |-> "unknown"], !.done = {}]
    /\ ScKeep

\* the command failed: the scan returns [] and the session stores it
ScFail ==
    /\ sc.pc = "ran"
    /\ sc.rcs[Len(sc.rcs)] # 0
    /\ sc' = [sc EXCEPT !.pc = "idle", !.ports_info = FailedScan(@)]
    /\ ScKeep

\* the lines are parsed into the basic records
ScParse ==
    /\ sc.pc = "ran"
    /\ sc.rcs[Len(sc.rcs)] = 0
    /\ sc' = [sc EXCEPT !.pc = "fetch", !.basic = ParseLines(sc.lines)]
    /\ ScKeep

\* the status psutil finds for the process: fixed the first time it is asked
\* in a cycle
ProcStatus(p) == IF sc.proc[p] = "unknown" THEN FetchOutcomes ELSE {sc.proc[p]}

\* sequential mode, next record: get_process_details_single(pid) if pid else {}
ScFetchSeq ==
    /\ sc.pc = "fetch" /\ sc.mode = "sequential"
    /\ Len(sc.built) < Len(sc.basic)
    /\ LET b == sc.basic[Len(sc.built) + 1] IN
       IF b.pid = NoPid
       THEN sc' = [sc EXCEPT !.built = Append(@, PortRecord(b, DefaultDetails))]
       ELSE \E o \in ProcStatus(b.pid) :
              LET s2 == [sc EXCEPT !.fetches[b.pid] = @ + 1, !.proc[b.pid] = o] IN
              IF o = "ok"
              THEN sc' = [s2 EXCEPT !.built = Append(@, PortRecord(b, RealDetails))]
              ELSE IF ~Raises(o)
              THEN sc' = [s2 EXCEPT !.built = Append(@, PortRecord(b, SentinelDetails))]
              ELSE \* except Exception as e: ... return []
                   sc' = [s2 EXCEPT !.pc = "idle", !.ports_info = <<>>]
    /\ ScKeep

\* parallel mode, one worker: get_process_details_cached(pid) for a unique
\* pid; the workers of the pool finish in any order
ScFetchPar ==
    /\ sc.pc = "fetch" /\ sc.mode = "parallel"
    /\ \E p \in UniquePids(sc.basic) \ sc.done :
        IF p \in DOMAIN sc.cache
        THEN sc' = [sc EXCEPT !.done = @ \cup {p}]
        ELSE \E o \in ProcStatus(p) :
               LET s2 == [sc EXCEPT !.fetches[p] = @ + 1, !.proc[p] = o,
                                    !.done = @ \cup {p}]
                   d == IF o = "ok" THEN RealDetails ELSE SentinelDetails
               IN
               IF ~Raises(o)
               THEN sc' = [s2 EXCEPT !.cache = DictPut(@, p, d)]
               ELSE sc' = s2  \* the exception is kept in the future
    /\ ScKeep

\* for future in futures: the futures are taken one after the other
NextFuture == CHOOSE p \in UniquePids(sc.basic) \ DOMAIN sc.map :
                \A q \in UniquePids(sc.basic) \ DOMAIN sc.map : p <= q

\* future.result() blocks until the worker of that future has finished
ResultNeverWaits(p) == TRUE

ResultReady(p) == p \in sc.done

\* details = future.result(); process_details_map[pid] = details, or the
\* fallback dict of the except branch when the worker raised
ScCollect ==
    /\ sc.pc = "fetch" /\ sc.mode = "parallel"
    /\ UniquePids(sc.basic) \ DOMAIN sc.map # {}
    /\ LET p == NextFuture IN
       /\ ResultReady(p)
       /\ sc' = [sc EXCEPT !.map = DictPut(@, p, IF p \in DOMAIN sc.cache
                                                  THEN sc.cache[p]
                                                  ELSE SentinelDetails)]
    /\ ScKeep

\* process_details_map.get(pid, {}) if pid else {}
DetailsFor(b) == IF b.pid # NoPid /\ b.pid \in DOMAIN sc.map
                 THEN sc.map[b.pid] ELSE DefaultDetails

\* the scan returns its list and the session stores it
ScReturn ==
    /\ sc.pc = "fetch"
    /\ IF sc.mode = "sequential"
       THEN /\ Len(sc.built) = Len(sc.basic)
            /\ sc' = [sc EXCEPT !.pc = "idle", !.ports_info = sc.built]
       ELSE /\ UniquePids(sc.basic) \subseteq DOMAIN sc.map
            /\ sc' = [sc EXCEPT !.pc = "idle",
                                !.built = [i \in 1..Len(sc.basic) |->
                                             PortRecord(sc.basic[i], DetailsFor(sc.basic[i]))],
                                !.ports_info = [i \in 1..Len(sc.basic) |->
                                             PortRecord(sc.basic[i], DetailsFor(sc.basic[i]))]]
    /\ ScKeep

(* ----------------------------- name resolver --------------------------- *)
\* FreeThreadingPortMonitor.get_friendly_app_name. A string is the sequence
\* of its pieces, "/" being a piece of its own; None and "" are <<>>.
Unknown == <<"Unknown">>

\* SYSTEM_SERVICES (two of its entries) and GENERIC_APP_NAMES (one)
SYSTEM_SERVICES == [n \in {<<"nginx">>, <<"sshd">>} |->
                        IF n = <<"nginx">> THEN <<"Nginx (web server)">>
                                           ELSE <<"SSH Server">>]

GENERIC_APP_NAMES == {<<"api">>}

ProcessNames == {<<"nginx">>, <<"node">>, Unknown}
Descriptions == {<<>>, <<"My shop">>}
AppNames == {<<>>, Unknown, <<"api">>, <<"API">>, <<"shop">>}
ProjectFolders == {<<>>, Unknown, <<"shop">>, <<"ws", "/", "shop">>,
                   <<"a", "/", "ws", "/", "api">>}

\* str.lower()
LowerPiece(c) == IF c = "API" THEN "api" ELSE c

Lower(s) == [i \in 1..Len(s) |-> LowerPiece(s[i])]

\* str.split("/")
RECURSIVE Split(_)
Split(s) ==
    IF \A i \in 1..Len(s) : s[i] # "/" THEN <<s>>
    ELSE LET i == CHOOSE j \in 1..Len(s) :
                     s[j] = "/" /\ \A m \in 1..(j - 1) : s[m] # "/"
         IN <<SubSeq(s, 1, i - 1)>> \o Split(SubSeq(s, i + 1, Len(s)))

FolderParts(project_folder) ==
    IF project_folder # <<>> /\ project_folder # Unknown
    THEN Split(project_folder) ELSE <<>>

\* rule 3: the package name, prefixed with the parent folder when it is generic
PackageNameAsIs(project_folder, app_name) == app_name

PackageLabel(project_folder, app_name) ==
    LET folder_parts == FolderParts(project_folder) IN
    IF Lower(app_name) \in GENERIC_APP_NAMES /\ Len(folder_parts) >= 2
    THEN PyIndex(folder_parts, -2) \o <<"/">> \o app_name
    ELSE app_name

\* rules 4 and 5: the process name, or the label built from the folder path
FolderLabel(process_name, project_folder) ==
    LET folder_parts == FolderParts(project_folder)
        last_folder == IF folder_parts # <<>> THEN PyIndex(folder_parts, -1) ELSE <<>>
    IN
    IF project_folder = Unknown \/ project_folder = <<>>
    THEN IF process_name # Unknown THEN process_name ELSE Unknown
    ELSE IF Len(folder_parts) >= 2
    THEN PyIndex(folder_parts, -2) \o <<"/">> \o last_folder
    ELSE IF last_folder # <<>> THEN last_folder ELSE Unknown

NoCall == [made |-> FALSE, process_name |-> <<>>, project_folder |-> <<>>,
           app_name |-> <<>>, description |-> <<>>, label |-> <<>>]

\* no discovery made yet; a layout names, per kind of file, the levels above
\* the working directory at which one lies (level 0 is the directory itself)
NoDisc == [made |-> FALSE, depth |-> 0, manifest |-> {}, build |-> {},
           docstring |-> {}, readme |-> {}, app_name |-> "None",
           description |-> "None"]

NrIdle == [pc |-> "off", prev |-> NoCall, cur |-> NoCall, disc |-> NoDisc]

\* the package name tried before the description
PackageBeforeDescription(process_name, project_folder, app_name, description) ==
    IF process_name \in DOMAIN SYSTEM_SERVICES THEN SYSTEM_SERVICES[process_name]
    ELSE IF app_name # <<>> /\ app_name # Unknown
    THEN PackageLabel(project_folder, app_name)
    ELSE IF description # <<>> THEN description
    ELSE FolderLabel(process_name, project_folder)

\* the label of the last call reused for the same process name
LabelKeptPerProcessName(process_name, project_folder, app_name, description) ==
    IF nr.cur.made /\ nr.cur.process_name = process_name THEN nr.cur.label
    ELSE IF process_name \in DOMAIN SYSTEM_SERVICES THEN SYSTEM_SERVICES[process_name]
    ELSE IF description # <<>> THEN description
    ELSE IF app_name # <<>> /\ app_name # Unknown
    THEN PackageLabel(project_folder, app_name)
    ELSE FolderLabel(process_name, project_folder)

get_friendly_app_name(process_name, project_folder, app_name, description) ==
    IF process_name \in DOMAIN SYSTEM_SERVICES THEN SYSTEM_SERVICES[process_name]
    ELSE IF description # <<>> THEN description
    ELSE IF app_name # <<>> /\ app_name # Unknown
    THEN PackageLabel(project_folder, app_name)
    ELSE FolderLabel(process_name, project_folder)

NrKeep == UNCHANGED <<variant, pc, is_terminal, old_settings, term_mode,
                      ports_info, visible_ports, drawn, hidden, countdown, since,
                      user_input, input_text, typed, erased, ev, exit_kind,
                      hid_ports, quit_typed, kp, sc, ro>>

\* one call of the resolver; prev remembers one of the calls made before
NameCall ==
    /\ nr.pc = "on"
    /\ \E pn \in ProcessNames, pf \in ProjectFolders, an \in AppNames,
          d \in Descriptions, keep \in BOOLEAN :
        nr' = [nr EXCEPT
                 !.prev = IF keep /\ nr.prev.made THEN nr.prev ELSE nr.cur,
                 !.cur = [made |-> TRUE, process_name |-> pn, project_folder |-> pf,
                          app_name |-> an, description |-> d,
                          label |-> get_friendly_app_name(pn, pf, an, d)]]
    /\ NrKeep

(* ------------------------------- discovery ----------------------------- *)
\* get_app_name_from_package_json and get_project_description walk upward
\* from the working directory; `for _ in range(n)` with current = current.parent
NameSearchDirs == 5
DescSearchDirs == 3

Places == {{}} \cup {{l} : l \in 0..MaxLevel}

Layouts == {[depth |-> d, manifest |-> m, build |-> b, docstring |-> s, readme |-> r] :
              d \in 0..MaxLevel, m \in Places, b \in Places, s \in Places, r \in Places}

\* the directories a loop of n rounds examines: it stops at the root
Examined(n, depth) == 0..Min(n - 1, depth)

\* Path(cwd) / name only: the working directory itself
InCwd(fs, files) == 0 \in files

get_app_name_from_package_json(fs) ==
    IF fs.manifest \cap Examined(NameSearchDirs, fs.depth) # {} THEN "name" ELSE "None"

get_project_description(fs) ==
    IF fs.manifest \cap Examined(DescSearchDirs, fs.depth) # {} THEN "manifest"
    ELSE IF fs.build \cap Examined(DescSearchDirs, fs.depth) # {} THEN "build"
    ELSE IF InCwd(fs, fs.docstring) THEN "docstring"
    ELSE IF InCwd(fs, fs.readme) THEN "readme"
    ELSE "None"

\* get_process_details_single 261-263: both searches run on the process's cwd
Discover ==
    /\ nr.pc = "disc"
    /\ \E fs \in Layouts :
        /\ \A k \in {fs.manifest, fs.build, fs.docstring, fs.readme} :
              k \subseteq 0..fs.depth
        /\ nr' = [nr EXCEPT !.pc = "found",
                            !.disc = [made |-> TRUE, depth |-> fs.depth,
                                      manifest |-> fs.manifest, build |-> fs.build,
                                      docstring |-> fs.docstring, readme |-> fs.readme,
                                      app_name |-> get_app_name_from_package_json(fs),
                                      description |-> get_project_description(fs)]]
    /\ NrKeep

(* -------------------------------- run_once ----------------------------- *)
\* PortMonitor.run_once: one scan, then the offer to kill by port or by pid
PidThreshold == 9000

\* the port ranges the monitor is constructed with and the numbers typed
RoRanges == {[lo |-> 443, hi |-> 9000], [lo |-> 443, hi |-> 20000],
             [lo |-> 1, hi |-> 1000]}
RoEntries == {500, 5000, 9000, 9001, 15000, 30000}

\* the records of the scan: sockets on ports of the configured range
RoRecords(range) == {[port |-> p, pid |-> q] :
                        p \in {e \in RoEntries : range.lo <= e /\ e <= range.hi},
                        q \in {NoPid, 1}}

RoScans(range) == SeqsUpTo(RoRecords(range), MaxRecs)

RoIdle == [pc |-> "off", range |-> [lo |-> 443, hi |-> 9000], ports_info |-> <<>>,
           value |-> -1, treat |-> "none", target |-> NoPid, killed |-> <<>>,
           said |-> "none", handler |-> "run_once", confirmed |-> "none"]

RoKeep == UNCHANGED <<variant, pc, is_terminal, old_settings, term_mode,
                      ports_info, visible_ports, drawn, hidden, countdown, since,
                      user_input, input_text, typed, erased, ev, exit_kind,
                      hid_ports, quit_typed, kp, sc, nr>>

\* if value > 9000: the entry is a pid
IsPidEntry(value, range) == value > PidThreshold

\* next((p for p in ports_info if p['port'] == value), None)
RoMatches(ps, value) == {i \in 1..Len(ps) : ps[i].port = value}

RoFirstMatch(ps, value) ==
    CHOOSE i \in RoMatches(ps, value) : \A j \in RoMatches(ps, value) : i <= j

\* get_open_ports() and the display; the offer is made on a terminal only
RoScan ==
    /\ ro.pc = "scan"
    /\ \E s \in RoScans(ro.range), offer \in BOOLEAN :
        ro' = [ro EXCEPT !.ports_info = s, !.pc = IF offer THEN "ask" ELSE "done"]
    /\ RoKeep

\* Confirm.ask("Would you like to kill any process?")
RoAsk ==
    /\ ro.pc = "ask"
    /\ \E yes \in BOOLEAN :
        ro' = [ro EXCEPT !.pc = IF yes THEN "enter" ELSE "done"]
    /\ RoKeep

\* Prompt.ask("Enter port number or PID") answered with a number
RoEnter ==
    /\ ro.pc = "enter"
    /\ \E v \in RoEntries :
        IF IsPidEntry(v, ro.range)
        THEN ro' = [ro EXCEPT !.pc = "confirm", !.value = v, !.treat = "pid",
                              !.target = v]
        ELSE IF /\ RoMatches(ro.ports_info, v) # {}
                /\ ro.ports_info[RoFirstMatch(ro.ports_info, v)].pid # NoPid
        THEN ro' = [ro EXCEPT !.pc = "confirm", !.value = v, !.treat = "port",
                              !.target = ro.ports_info[RoFirstMatch(ro.ports_info, v)].pid]
        ELSE ro' = [ro EXCEPT !.pc = "done", !.value = v, !.treat = "port",
                              !.said = "No process found on port"]
    /\ RoKeep

\* int(port_or_pid) raises ValueError
RoInvalid ==
    /\ ro.pc = "enter"
    /\ ro' = [ro EXCEPT !.pc = "done", !.said = "Invalid input"]
    /\ RoKeep

\* if Confirm.ask(...): self.kill_process(...) -- the pids kill_process is
\* called for, given the answer
KillWhateverAnswer(yes, targets) == targets

KillIfConfirmed(yes, targets) == IF yes THEN targets ELSE <<>>

\* Confirm.ask("Kill ...?") and kill_process
RoConfirm ==
    /\ ro.pc = "confirm"
    /\ \E yes \in BOOLEAN :
        ro' = [ro EXCEPT !.pc = "done",
                         !.confirmed = IF yes THEN "yes" ELSE "no",
                         !.killed = KillIfConfirmed(yes, <<ro.target>>)]
    /\ RoKeep

(* ------------------------- the menu-driven handlers -------------------- *)
\* PortMonitor.interactive_mode, EnhancedPortMonitor.interactive_session and
\* EnhancedPortMonitor.quick_view: scan, show, ask what to do
QuickLo == 3000
QuickHi == 9000

MenuHandlers == {"interactive_mode", "interactive_session", "quick_view"}
MnRecords == {[port |-> 3000, pid |-> 1], [port |-> 5000, pid |-> 2],
              [port |-> 5000, pid |-> NoPid]}
MnScans == SeqsUpTo(MnRecords, MaxRecs)
MnEntries == {1, 2, 3000, 5000, 9001}

\* for port in indexed_ports: if port['pid']: self.kill_process(port['pid'])
AllPids(ps) == LET with_pid == SelectSeq(ps, LAMBDA r : r.pid # NoPid)
               IN [i \in 1..Len(with_pid) |-> with_pid[i].pid]

\* the loop head: get_open_ports() and the table; quick_view returns when
\* there is nothing to show or no terminal, interactive_session asks "Refresh?"
MnScan ==
    /\ ro.pc = "menu_scan"
    /\ \E s \in MnScans, tty \in BOOLEAN :
        ro' = [ro EXCEPT !.ports_info = s, !.value = -1, !.treat = "none",
                         !.target = NoPid, !.killed = <<>>, !.said = "none",
                         !.confirmed = "none",
                         !.pc = IF ro.handler = "quick_view"
                                THEN IF s = <<>> \/ ~tty THEN "done" ELSE "menu"
                                ELSE IF ro.handler = "interactive_session" /\ s = <<>>
                                THEN "refresh_ask" ELSE "menu"]
    /\ RoKeep

\* interactive_session 205-208: Confirm.ask("Refresh?")
MnRefreshAsk ==
    /\ ro.pc = "refresh_ask"
    /\ \E yes \in BOOLEAN :
        ro' = [ro EXCEPT !.pc = IF yes THEN "menu_scan" ELSE "done"]
    /\ RoKeep

\* a choice that terminates nothing: refresh, export, an unknown letter, quit
MnOther ==
    /\ ro.pc = "menu"
    /\ \E leave \in BOOLEAN :
        /\ ro.handler = "quick_view" => leave
        /\ ro' = [ro EXCEPT !.pc = IF leave THEN "done" ELSE "menu_scan"]
    /\ RoKeep

\* interactive_mode, choices 2 and 3: a pid or a port is asked for
MnEnter ==
    /\ ro.pc = "menu" /\ ro.handler = "interactive_mode"
    /\ \E by \in {"pid", "port"}, v \in MnEntries, valid \in BOOLEAN :
        IF ~valid  \* int() raises ValueError
        THEN ro' = [ro EXCEPT !.pc = "menu_scan", !.treat = by, !.said = "Invalid"]
        ELSE IF by = "pid"
        THEN ro' = [ro EXCEPT !.pc = "mn_confirm", !.treat = by, !.value = v,
                              !.target = v]
        ELSE IF /\ RoMatches(ro.ports_info, v) # {}
                /\ ro.ports_info[RoFirstMatch(ro.ports_info, v)].pid # NoPid
        THEN ro' = [ro EXCEPT !.pc = "mn_confirm", !.treat = by, !.value = v,
                              !.target = ro.ports_info[RoFirstMatch(ro.ports_info, v)].pid]
        ELSE ro' = [ro EXCEPT !.pc = "menu_scan", !.treat = by, !.value = v,
                              !.said = "No process found on port"]
    /\ RoKeep

\* interactive_session, choice A
MnKillAll ==
    /\ ro.pc = "menu" /\ ro.handler = "interactive_session"
    /\ ro' = [ro EXCEPT !.pc = "mn_confirm", !.treat = "all"]
    /\ RoKeep

\* interactive_session, a digit choice: the process is shown and an action
\* (1 kill gracefully, 2 force kill, 3 cancel) is asked for and carried out
MnManage ==
    /\ ro.pc = "menu" /\ ro.handler = "interactive_session"
    /\ \E v \in MnEntries, action \in 1..3 :
        IF 0 <= v - 1 /\ v - 1 < Len(ro.ports_info)
        THEN LET selected == SortByPort(ro.ports_info)[v] IN
             ro' = [ro EXCEPT !.pc = "menu_scan", !.treat = "manage", !.value = v,
                              !.target = selected.pid,
                              !.killed = IF action \in {1, 2} /\ selected.pid # NoPid
                                         THEN <<selected.pid>> ELSE <<>>]
        ELSE ro' = [ro EXCEPT !.pc = "menu_scan", !.treat = "manage", !.value = v,
                              !.said = "Invalid selection"]
    /\ RoKeep

\* quick_view, a digit choice: a row number first, a port of 3000-9000 next
MnQuick ==
    /\ ro.pc = "menu" /\ ro.handler = "quick_view"
    /\ \E v \in MnEntries :
        IF 1 <= v /\ v <= Len(ro.ports_info)
        THEN LET selected == SortByPort(ro.ports_info)[v] IN
             ro' = [ro EXCEPT !.treat = "number", !.value = v, !.target = selected.pid,
                              !.pc = IF selected.pid # NoPid THEN "mn_confirm" ELSE "done"]
        ELSE IF QuickLo <= v /\ v <= QuickHi
        THEN IF /\ RoMatches(ro.ports_info, v) # {}
                /\ ro.ports_info[RoFirstMatch(ro.ports_info, v)].pid # NoPid
             THEN ro' = [ro EXCEPT !.pc = "mn_confirm", !.treat = "port", !.value = v,
                                   !.target = ro.ports_info[RoFirstMatch(ro.ports_info, v)].pid]
             ELSE ro' = [ro EXCEPT !.pc = "done", !.treat = "port", !.value = v,
                                   !.said = "No process found on port"]
        ELSE ro' = [ro EXCEPT !.pc = "done", !.value = v]
    /\ RoKeep

\* if Confirm.ask(...): kill_process for the chosen pid, or for every pid
MnConfirm ==
    /\ ro.pc = "mn_confirm"
    /\ \E yes \in BOOLEAN :
        ro' = [ro EXCEPT !.pc = IF ro.handler = "quick_view" THEN "done" ELSE "asked",
                         !.confirmed = IF yes THEN "yes" ELSE "no",
                         !.killed = KillIfConfirmed(yes, IF ro.treat = "all"
                                                         THEN AllPids(ro.ports_info)
                                                         ELSE <<ro.target>>)]
    /\ RoKeep

\* Prompt.ask("Press Enter to continue") and the next round of the loop
MnContinue ==
    /\ ro.pc = "asked"
    /\ ro' = [ro EXCEPT !.pc = "menu_scan"]
    /\ RoKeep

(* ------------------------------ specification -------------------------- *)

SessionInit ==
    /\ variant \in Variants
    /\ pc = "start"
    /\ is_terminal = FALSE
    /\ old_settings = FALSE
    /\ term_mode = "orig"
    /\ ports_info = <<>>
    /\ visible_ports = <<>>
    /\ drawn = <<>>
    /\ hidden = {}
    /\ countdown = Interval
    /\ since = 0
    /\ user_input = NoKey
    /\ input_text = <<>>
    /\ typed = <<>>
    /\ erased = FALSE
    /\ ev = NoEv
    /\ exit_kind = "none"
    /\ hid_ports = {}
    /\ quit_typed = FALSE

Init == SessionInit /\ kp = KpIdle /\ sc = ScIdle /\ nr = NrIdle /\ ro = RoIdle

Next ==
    \/ Setup
    \/ Tick
    \/ SkipNoPorts
    \/ KeyQuit
    \/ KeyRefresh
    \/ KeyOpenPrompt
    \/ KeyUnhide
    \/ KeyIgnored
    \/ PromptDigit
    \/ PromptBackspace
    \/ PromptIgnored
    \/ PromptWait
    \/ KillPromptCommit
    \/ KillPromptEsc
    \/ KillPromptLetter
    \/ HidePromptReturn
    \/ ShowPromptReturn
    \/ LoopBack
    \/ Interrupt
    \/ Crash

Spec == Init /\ [][Next]_vars

\* the session with a user who types 'q' in Idle: the key waits in stdin, so
\* every later read of a key returns it, and the loop keeps running
TypeQuit ==
    /\ pc = "idle" /\ is_terminal /\ ~quit_typed
    /\ quit_typed' = TRUE
    /\ UNCHANGED <<variant, pc, is_terminal, old_settings, term_mode, ports_info,
                   visible_ports, drawn, hidden, countdown, since, user_input, input_text,
                   typed, erased, ev, exit_kind, hid_ports, kp, sc, nr, ro>>

QuitWaiting ==
    /\ quit_typed
    /\ \/ KeyQuit
       \/ SkipNoPorts
       \/ LoopBack

NextQuit ==
    \/ ~quit_typed /\ Next
    \/ TypeQuit
    \/ QuitWaiting

SpecQuit == Init /\ [][NextQuit]_vars /\ WF_vars(QuitWaiting)

\* one kill_process call, step by step, with the target process as environment
InitKill == /\ SessionInit
            /\ variant = "interactive"
            /\ kp \in KpCalls
            /\ sc = ScIdle
            /\ nr = NrIdle
            /\ ro = RoIdle

NextKill ==
    \/ KpSignal
    \/ KpSleep
    \/ KpCheck
    \/ KpForce
    \/ KpSudo
    \/ KpProcExit
    \/ KpCredChange

SpecKill == InitKill /\ [][NextKill]_vars

\* scan cycles of one monitor started by main with a mode flag, on a build
\* with or without the GIL
InitScan == /\ SessionInit
            /\ variant = "freethreading"
            /\ kp = KpIdle
            /\ nr = NrIdle
            /\ ro = RoIdle
            /\ sc \in {[ScIdle EXCEPT !.pc = "idle", !.flag = f, !.gil_disabled = g] :
                         f \in Flags, g \in BOOLEAN}

NextScan ==
    \/ ScStart
    \/ ScFail
    \/ ScParse
    \/ ScFetchSeq
    \/ ScFetchPar
    \/ ScCollect
    \/ ScReturn

SpecScan == InitScan /\ [][NextScan]_vars

\* calls of the name resolver, one after the other
InitName == /\ SessionInit
            /\ variant = "freethreading"
            /\ kp = KpIdle
            /\ sc = ScIdle
            /\ nr = [NrIdle EXCEPT !.pc = "on"]
            /\ ro = RoIdle

NextName == NameCall

SpecName == InitName /\ [][NextName]_vars

\* the discovery made for one process, on any layout of files above its cwd
InitDiscover == /\ SessionInit
                /\ variant = "freethreading"
                /\ kp = KpIdle
                /\ sc = ScIdle
                /\ nr = [NrIdle EXCEPT !.pc = "disc"]
                /\ ro = RoIdle

NextDiscover == Discover

SpecDiscover == InitDiscover /\ [][NextDiscover]_vars

\* one run_once call on a monitor built for one of the port ranges
InitOnce == /\ SessionInit
            /\ variant = "interactive"
            /\ kp = KpIdle
            /\ sc = ScIdle
            /\ nr = NrIdle
            /\ ro \in {[RoIdle EXCEPT !.pc = "scan", !.range = r] : r \in RoRanges}

NextOnce ==
    \/ RoScan
    \/ RoAsk
    \/ RoEnter
    \/ RoInvalid
    \/ RoConfirm

SpecOnce == InitOnce /\ [][NextOnce]_vars

\* one of the menu-driven handlers: run_once or a menu of the basic or of the
\* enhanced monitor
InitMenu == /\ SessionInit
            /\ variant = "interactive"
            /\ kp = KpIdle
            /\ sc = ScIdle
            /\ nr = NrIdle
            /\ ro \in {[RoIdle EXCEPT !.pc = "scan", !.range = r] : r \in RoRanges}
                   \cup {[RoIdle EXCEPT !.pc = "menu_scan", !.handler = h] :
                            h \in MenuHandlers}

NextMenu ==
    \/ NextOnce
    \/ MnScan
    \/ MnRefreshAsk
    \/ MnOther
    \/ MnEnter
    \/ MnKillAll
    \/ MnManage
    \/ MnQuick
    \/ MnConfirm
    \/ MnContinue

SpecMenu == InitMenu /\ [][NextMenu]_vars

(* ======================================================================= *)
(* Claims                                                                  *)
(* ======================================================================= *)

(* ---- the visible list, stated on positions of the last scan result ---- *)
ShownAt(ps, h) == {i \in 1..Len(ps) : HiddenKey(variant, ps[i]) \notin h}

\* position i is the k-th shown record in ascending port order (ties in scan order)
RankAt(ps, h, i) ==
    1 + Cardinality({j \in ShownAt(ps, h) :
                        \/ ps[j].port < ps[i].port
                        \/ ps[j].port = ps[i].port /\ j < i})

RECURSIVE Pow10(_)
Pow10(n) == IF n = 0 THEN 1 ELSE 10 * Pow10(n - 1)

RECURSIVE Decimal(_)
Decimal(s) == IF s = <<>> THEN 0
              ELSE DigitVal(Head(s)) * Pow10(Len(s) - 1) + Decimal(Tail(s))

Committed(e) == e.kind \in {"kill", "nopid", "invalid"}

\* C1: once the terminal settings were saved and cbreak mode entered, every way
\* out of the session (quit key, quit typed while buffering, KeyboardInterrupt,
\* uncaught exception) leaves the terminal in its original mode.
C1_TerminalRestoredOnExit ==
    pc = "done" => term_mode = "orig"

C1_Witness ==
    /\ pc = "done" /\ old_settings /\ is_terminal
    /\ exit_kind = "crash" /\ user_input # NoKey

\* C2: a committed index k with 1 <= k <= number of visible records issues
\* exactly one termination request, for the pid of the k-th record of the
\* hidden-filtered list in ascending port order, and none when that record
\* has no pid.
C2_KillTargetsKthVisible ==
    [][(pc = "kill_prompt" /\ pc' = "loop_end"
        /\ ev'.k \in 1..Cardinality(ShownAt(ports_info, hidden)))
       => \E i \in ShownAt(ports_info, hidden) :
            /\ RankAt(ports_info, hidden, i) = ev'.k
            /\ ev'.killed = IF ports_info[i].pid # NoPid
                            THEN <<ports_info[i].pid>> ELSE <<>>]_vars

C2_Witness ==
    /\ ev.kind = "kill" /\ ev.k = 2 /\ ev.killed = <<2>>

\* C3: digits d1..dn typed from Idle and ended by Enter give one commit whose
\* index is the decimal value of d1..dn; while the digits are being typed no
\* selection is dispatched.
C3_EnterCommitsWholeNumber ==
    [][pc = "kill_prompt" =>
        /\ (pc' = "kill_prompt" => ~Committed(ev') /\ ev'.killed = <<>>)
        /\ (ev'.by = "enter" /\ ~erased
            => Committed(ev') /\ ev'.k = Decimal(typed))]_vars

C3_Witness ==
    /\ Committed(ev) /\ ev.by = "enter" /\ ev.k = 12

\* C4: a command letter typed while kill digits are buffered discards the
\* digits and dispatches no termination request.
C4_LetterDiscardsDigits ==
    ev.by = "letter" => ev.killed = <<>>

\* C5: ESC in a prompt returns the loop to Idle with the buffer discarded, no
\* termination request, nothing added to the hidden set, the session running.
C5_EscCancelsPrompt ==
    [][ev'.by = "esc" =>
        /\ pc' = "loop_end"
        /\ input_text' = <<>>
        /\ ev'.killed = <<>>
        /\ hidden' = hidden]_vars

\* C6: a committed index that is 0 or above the number of visible records
\* dispatches nothing, leaves the hidden set alone, reports an error, redraws
\* and goes back to Idle.
C6_InvalidIndexRejected ==
    [][(pc = "kill_prompt" /\ pc' # "kill_prompt" /\ ev'.k >= 0
        /\ (ev'.k = 0 \/ ev'.k > Cardinality(ShownAt(ports_info, hidden))))
       => /\ ev'.killed = <<>>
          /\ hidden' = hidden
          /\ ev'.err /\ ev'.redraw
          /\ pc' = "loop_end" /\ exit_kind' = "none"]_vars

C6_Witness ==
    /\ ev.kind = "invalid" /\ ev.k = 0 /\ pc = "loop_end" /\ Len(ports_info) > 0

(* ------------------------- session without a terminal ------------------ *)
\* the loop runs while the terminal was never put into cbreak mode
Degraded == pc \notin {"start", "done"} /\ term_mode = "orig"

\* C23: when cbreak mode could not be entered (or stdin is no terminal) the
\* session starts all the same, and from then on no step reads a key, opens
\* a prompt, changes the hidden set or requests a termination; the loop ends
\* only by an interrupt or an exception; and a loop iteration begun when the
\* interval has elapsed rescans.
C23_DegradedSessionIsReadOnly ==
    [][/\ pc = "start" => pc' = "idle"
       /\ Degraded =>
            /\ ev'.by = "none" /\ ev'.key = NoKey
            /\ pc' \notin Prompts
            /\ hidden' = hidden
            /\ ev'.killed = <<>>
            /\ pc' = "done" => exit_kind' \in {"interrupt", "crash"}
            /\ (pc = "idle" /\ since >= Interval /\ pc' = "loop_end")
                    => ev'.rescan]_vars

C23_Witness ==
    /\ Degraded /\ old_settings /\ ~is_terminal
    /\ pc = "loop_end" /\ ev.kind = "tick" /\ ev.rescan /\ Len(ports_info) = 2

\* C25: on a terminal, a quit key typed in Idle is eventually read and ends
\* the loop, also while the scans return no records and nothing is hidden.
C25_QuitEventuallyRead ==
    quit_typed ~> (pc = "done" /\ exit_kind = "quit")

\* C26: a step that dispatches a termination request from an index
\* selection also rescans and redraws the hidden-filtered records before the
\* loop reads another key, whether kill_process returned True or False.
C26_KillIsFollowedByRescan ==
    [][ev'.killed # <<>>
       => /\ ev'.rescan /\ ev'.redraw
          /\ pc' = "loop_end"
          /\ ports_info' \in ScanResults
          /\ visible_ports' = FilterHidden(variant, ports_info', hidden')]_vars

C26_Witness ==
    /\ ev.kind = "kill" /\ ev.killed = <<1>> /\ ~ev.kret
    /\ ev.rescan /\ ports_info = <<[port |-> 2, pid |-> 2]>>

\* C27: a manual refresh or a dispatched termination leaves the countdown at
\* the interval and restarts the time measured from the last update; an
\* automatic refresh happens only when a full interval has elapsed since.
C27_RefreshAndKillRestartInterval ==
    [][/\ (ev'.kind = "refresh" \/ ev'.killed # <<>>)
            => countdown' = Interval /\ since' = 0
       /\ (pc = "idle" /\ ev'.kind \in {"tick", "ignored"} /\ ev'.rescan)
            => since >= Interval]_vars

C27_Witness ==
    /\ pc = "loop_end" /\ ev.kind = "kill" /\ ev.by = "enter"
    /\ countdown = Interval /\ since = 0

(* ------------------------------- countdown ----------------------------- *)
\* a loop iteration that ran from the loop head to the end of the body
\* without leaving Idle for a prompt
IdleIteration == pc = "idle" /\ ev'.kind \in {"tick", "skip", "ignored"}

\* C24: an iteration begun in Idle with the countdown at 0 rescans the record
\* set and sets the countdown back to the interval (it is shown, then
\* decremented once); the countdown does not stay at 0 without a refresh.
C24_ZeroCountdownForcesRefresh ==
    [][(IdleIteration /\ countdown = 0)
       => ev'.rescan /\ countdown' >= Interval - 1]_vars

\* C28: the countdown follows the clock, so in every Idle state reached at
\* the end of a loop iteration the countdown is the number of seconds left
\* until the next automatic refresh; a keypress causes no extra decrement and
\* hide, show and unhide do not move the one without the other.
C28_CountdownIsSecondsRemaining ==
    (pc = "idle" /\ ev.kind = "none") => countdown = Interval - since

(* ------------------------------ hidden set ----------------------------- *)
\* the key a record is hidden by: its port (interactive_monitor), its pid (quick_view)
KeyOf(r) == IF variant = "interactive" THEN r.port ELSE r.pid

Shown == Cardinality(ShownAt(ports_info, hidden))

\* C12: a port hidden through the hide command has no record in the visible
\* list, whatever refreshes follow and whichever process owns the port, until
\* show or unhide removes it.
C12_HiddenPortStaysHidden ==
    \A i \in 1..Len(visible_ports) : visible_ports[i].port \notin hid_ports

\* C13: the unhide-all key read in Idle with a non-empty hidden set leaves the
\* hidden set empty and the visible list equal to the full record list.
C13_UnhideAllClears ==
    [][(pc = "idle" /\ ev'.key = "u" /\ hidden # {})
       => hidden' = {} /\ visible_ports' = ports_info']_vars

\* C14 as stated: hide committed on visible index k adds the key of the k-th
\* record, the visible count drops by exactly one, and every other record that
\* was visible is still visible.
C14_HideRemovesExactlyOne ==
    [][(pc = "hide_prompt" /\ pc' = "loop_end" /\ ev'.k \in 1..Shown)
       => \E i \in ShownAt(ports_info, hidden) :
            /\ RankAt(ports_info, hidden, i) = ev'.k
            /\ hidden' = hidden \cup {KeyOf(ports_info[i])}
            /\ Len(visible_ports') = Shown - 1
            /\ \A j \in ShownAt(ports_info, hidden) \ {i} :
                    \E m \in 1..Len(visible_ports') :
                        visible_ports'[m] = ports_info[j]]_vars

\* C14 amended: hide committed on visible index k adds the key of the k-th
\* record and no other (nothing when quick_view's record has no pid); the
\* visible list afterwards is the record list without every record carrying a
\* hidden key, so records sharing the key disappear together and records with
\* another key stay. interactive_monitor keeps its record list; quick_view
\* rescans first.
C14_HideRemovesKey ==
    [][(pc = "hide_prompt" /\ pc' = "loop_end" /\ ev'.k \in 1..Shown)
       => \E i \in ShownAt(ports_info, hidden) :
            LET key == KeyOf(ports_info[i]) IN
            /\ RankAt(ports_info, hidden, i) = ev'.k
            /\ hidden' = IF variant = "interactive" \/ key # NoPid
                          THEN hidden \cup {key} ELSE hidden
            /\ variant = "interactive" => ports_info' = ports_info
            /\ visible_ports' =
                  SelectSeq(ports_info', LAMBDA r : KeyOf(r) \notin hidden')]_vars

C14_Witness ==
    /\ pc = "loop_end" /\ ev.kind = "hide" /\ ev.k = 1
    /\ variant = "interactive"
    /\ Len(ports_info) = 2 /\ visible_ports = <<>> /\ Cardinality(hidden) = 1

C30_ShowRemovesOnlyThatPort ==
    [][(pc = "show_prompt" /\ ev'.kind = "show" /\ ev'.k >= 0)
       => /\ ev'.k \in hidden => hidden' = hidden \ {ev'.k}
          /\ ev'.k \notin hidden => hidden' = hidden
          /\ \A q \in hidden : q # ev'.k => q \in hidden']_vars

C30_Witness ==
    /\ pc = "loop_end" /\ ev.kind = "show" /\ ev.k = 1 /\ ev.redraw
    /\ hidden = {2}

\* C31: the list a committed kill or hide index is resolved against is the list
\* last rendered, in the same order; while a prompt buffers digits there is no
\* rescan, no change of the hidden set and no redraw.
C31_CommitListIsRenderedList ==
    [][(pc = "kill_prompt" \/ pc = "hide_prompt") =>
        /\ SortByPort(CommitList) = drawn
        /\ (pc' \in Prompts => /\ ports_info' = ports_info
                                /\ visible_ports' = visible_ports
                                /\ hidden' = hidden
                                /\ drawn' = drawn)]_vars

C31_Witness ==
    /\ pc = "loop_end" /\ ev.kind = "hide" /\ ev.by = "enter" /\ ev.k = 2
    /\ hidden # {} /\ Len(drawn) = 1 /\ Len(ports_info) = 2

\* C32: when the buffering timeout expires without Enter, buffering ends and
\* the digits typed so far, the first digit included, are committed as the
\* selection, as Enter would have committed them.
C32_TimeoutCommitsLikeEnter ==
    [][(pc = "kill_prompt" /\ ev'.by = "timeout") =>
        /\ pc' # "kill_prompt"
        /\ ev'.k = DecVal(KillInput(user_input, input_text))
        /\ (~erased => Committed(ev') /\ ev'.k = Decimal(typed))]_vars

C32_Witness ==
    /\ pc = "loop_end" /\ Committed(ev) /\ ev.by = "timeout" /\ ev.k = 12

\* C33: a backspace removes the most recently typed digit from the pending
\* selection, the first digit included: what is committed is the decimal value
\* of the digits not erased, and with every digit erased nothing is selected.
C33_BackspaceErasesAnyDigit ==
    [][(pc = "kill_prompt" /\ ev'.by \in {"enter", "timeout"}) =>
        IF typed = <<>> THEN ev'.killed = <<>>
                        ELSE ev'.k = Decimal(typed)]_vars

(* ------------------------------ scan claims ---------------------------- *)
ScanDone == sc.pc = "idle" /\ sc.rcs # <<>>

LastRc == sc.rcs[Len(sc.rcs)]

\* the lines that denote a socket: enough fields, no sudo prompt, a port suffix
IsSocketLine(l) == l.fields >= 6 /\ ~l.sudo /\ l.port # NoPort

SocketLines == SelectSeq(sc.lines, IsSocketLine)

\* a detail fetch of the cycle ended with an exception the lookup does not catch
UnexpectedError == \E p \in Pids : sc.proc[p] = "error"

\* C11: within one scan cycle the detail fetch runs at most once per process
\* id, in sequential mode and in parallel mode.
C11_FetchOncePerPid ==
    \A p \in Pids : sc.fetches[p] <= 1

\* C21: started with force-sequential (force-parallel), every scan cycle of
\* the session enriches sequentially (in parallel), whatever free-threading
\* status was detected.
C21_ForcedModeIsUsed ==
    (sc.rcs # <<>> /\ sc.flag # "none") => sc.mode = sc.flag

\* C15: a scan whose command exits non-zero gives the session an empty record
\* list and returns normally; a scan that succeeds gives it exactly the
\* sockets of its own output, whatever the cycle before did.
C15_FailedScanIsEmptyCycle ==
    (ScanDone /\ ~UnexpectedError) =>
        IF LastRc # 0
        THEN sc.ports_info = <<>>
        ELSE /\ Len(sc.ports_info) = Len(SocketLines)
             /\ \A i \in 1..Len(SocketLines) :
                    /\ sc.ports_info[i].port = SocketLines[i].port
                    /\ sc.ports_info[i].pid = SocketLines[i].pid

C15_Witness ==
    /\ ScanDone /\ sc.rcs = <<1, 0>> /\ Len(sc.ports_info) = 2

InRangePorts ==
    \A i \in 1..Len(sc.ports_info) :
        start_port <= sc.ports_info[i].port /\ sc.ports_info[i].port <= end_port

FilterObeyed ==
    \A i \in 1..Len(sc.lines) :
        IsSocketLine(sc.lines[i])
        => SsFilter.lo <= sc.lines[i].port /\ sc.lines[i].port <= SsFilter.hi

C18_VanishedProcessGetsSentinel ==
    (ScanDone /\ LastRc = 0 /\ ~UnexpectedError) =>
        /\ Len(sc.ports_info) = Len(SocketLines)
        /\ \A i \in 1..Len(sc.ports_info) :
              LET r == sc.ports_info[i]
                  st == IF r.pid = NoPid THEN "nopid" ELSE sc.proc[r.pid]
              IN
              /\ r.pid = SocketLines[i].pid
              /\ st \in {"gone", "denied"}
                    => /\ r.cwd = "Unknown" /\ r.memory = "N/A"
                       /\ r.cpu = "N/A" /\ r.user = "N/A"
              /\ st = "ok"
                    => /\ r.cwd = RealDetails.cwd /\ r.memory = RealDetails.memory
                       /\ r.cpu = RealDetails.cpu /\ r.user = RealDetails.user

C18_Witness ==
    /\ ScanDone /\ LastRc = 0 /\ Len(sc.ports_info) = 2
    /\ sc.proc[1] = "gone" /\ sc.proc[2] = "ok"
    /\ sc.ports_info[1].pid = 1 /\ sc.ports_info[2].pid = 2
    /\ sc.ports_info[1].cwd = "Unknown" /\ sc.ports_info[2].cwd = RealDetails.cwd

\* C34: the enrichment cache is empty when a scan cycle starts, so every cached
\* entry, and every details entry a record of the cycle is assembled from, was
\* fetched in that same cycle.
C34_CacheEmptyAtCycleStart ==
    /\ sc.pc = "ran" => sc.cache = EmptyDict
    /\ \A p \in DOMAIN sc.cache \cup DOMAIN sc.map : sc.fetches[p] >= 1
    /\ \A i \in 1..Len(sc.built) :
          sc.built[i].pid # NoPid => sc.fetches[sc.built[i].pid] >= 1

C34_Witness ==
    /\ sc.pc = "idle" /\ Len(sc.rcs) = 2 /\ sc.mode = "parallel"
    /\ sc.ports_info # <<>> /\ sc.ports_info[1].pid # NoPid
    /\ sc.ports_info[1].cwd = RealDetails.cwd
    /\ sc.ports_info[1].pid \in DOMAIN sc.cache

\* C35: in parallel mode the record list is assembled only after every worker
\* has completed, whatever order the workers finish in; each record with a
\* process id is assembled from the completed details entry of that id.
C35_AssemblyAfterAllWorkers ==
    (sc.mode = "parallel" /\ sc.built # <<>>) =>
        /\ UniquePids(sc.basic) \subseteq sc.done
        /\ \A i \in 1..Len(sc.built) :
              LET b == sc.basic[i] IN
              b.pid # NoPid =>
                  sc.built[i] = PortRecord(b, IF b.pid \in DOMAIN sc.cache
                                              THEN sc.cache[b.pid]
                                              ELSE SentinelDetails)

C35_Witness ==
    /\ sc.mode = "parallel" /\ sc.pc = "idle" /\ Len(sc.built) = 2
    /\ sc.built[1].pid = 2 /\ sc.built[2].pid = 1 /\ sc.done = {1, 2}
    /\ sc.built[1].cwd = RealDetails.cwd /\ sc.built[2].cwd = "Unknown"

\* C36: for the same command output and the same process table the sequential
\* and the parallel mode return the same record list, also when the fetch of
\* some process id fails with an unexpected error: what a finished cycle
\* returned is the list the other mode builds from the same lines and statuses.
C36_ModesReturnSameList ==
    (ScanDone /\ LastRc = 0) =>
        sc.ports_info = [i \in 1..Len(SocketLines) |->
                           LET l == SocketLines[i]
                               d == IF l.pid = NoPid THEN DefaultDetails
                                    ELSE IF sc.proc[l.pid] = "ok" THEN RealDetails
                                    ELSE SentinelDetails
                           IN [port |-> l.port, pid |-> l.pid, cwd |-> d.cwd,
                               memory |-> d.memory, cpu |-> d.cpu, user |-> d.user]]

\* well-formed as the two stated conditions have it: six or more fields and a
\* trailing :digits in the local address
WellFormed(l) == l.fields >= 6 /\ l.port # NoPort

ParsedFrom(ls) == [i \in 1..Len(ls) |-> [port |-> ls[i].port, pid |-> ls[i].pid]]

\* C39: the parse gives exactly one record for each line after the header that
\* has six or more fields and a trailing :digits, in input order; any other
\* line yields no record.
C39_OneRecordPerWellFormedLine ==
    sc.pc = "fetch" => sc.basic = ParsedFrom(SelectSeq(sc.lines, WellFormed))

\* what the parse does give: one record, in input order, for each well-formed
\* line that does not hold the text [sudo]; taking any other line out of the
\* output leaves the records as they are
ParseKeepsSocketLines ==
    sc.pc = "fetch" =>
        /\ sc.basic = ParsedFrom(SocketLines)
        /\ \A i \in 1..Len(sc.lines) :
              ~IsSocketLine(sc.lines[i]) =>
                  sc.basic = ParseLines([j \in 1..(Len(sc.lines) - 1) |->
                                 IF j < i THEN sc.lines[j] ELSE sc.lines[j + 1]])

(* -------------------------- name resolver claims ----------------------- *)
Slashes(s) == {i \in 1..Len(s) : s[i] = "/"}

LastSlash(s) == CHOOSE i \in Slashes(s) : \A j \in Slashes(s) : j <= i

\* the last segment of a path and the path before it
LastSegment(s) == IF Slashes(s) = {} THEN s ELSE SubSeq(s, LastSlash(s) + 1, Len(s))

ParentPath(s) == SubSeq(s, 1, LastSlash(s) - 1)

HasPath(pf) == pf # <<>> /\ pf # Unknown

\* rule 5: second-to-last/last for two or more segments, the segment for one
PathRuleLabel(pf) ==
    IF Slashes(pf) # {}
    THEN LastSegment(ParentPath(pf)) \o <<"/">> \o LastSegment(pf)
    ELSE pf

\* rule 3: the package name as it is, a generic one prefixed by its parent folder
PackageRuleLabel(c) ==
    IF Lower(c.app_name) \in GENERIC_APP_NAMES /\ HasPath(c.project_folder)
       /\ Slashes(c.project_folder) # {}
    THEN LastSegment(ParentPath(c.project_folder)) \o <<"/">> \o c.app_name
    ELSE c.app_name

\* the rules that apply to a call, by their number in the priority chain
Applicable(c) ==
    {i \in 1..5 :
        \/ i = 1 /\ c.process_name \in DOMAIN SYSTEM_SERVICES
        \/ i = 2 /\ c.description # <<>>
        \/ i = 3 /\ c.app_name # <<>> /\ c.app_name # Unknown
        \/ i = 4 /\ ~HasPath(c.project_folder)
        \/ i = 5 /\ HasPath(c.project_folder)}

RuleLabel(i, c) ==
    CASE i = 1 -> SYSTEM_SERVICES[c.process_name]
      [] i = 2 -> c.description
      [] i = 3 -> PackageRuleLabel(c)
      [] i = 4 -> c.process_name
      [] i = 5 -> PathRuleLabel(c.project_folder)

FirstApplicable(c) == CHOOSE i \in Applicable(c) : \A j \in Applicable(c) : i <= j

\* C19: the label returned is that of the first applicable rule in the order
\* (1) system-service table, (2) description, (3) package name, (4) process
\* name when there is no project path, (5) label derived from the path
\* (second-to-last/last for two or more segments, the segment for one); a
\* lower rule never overrides an applicable higher one.
C19_FirstRuleWins ==
    nr.cur.made => nr.cur.label = RuleLabel(FirstApplicable(nr.cur), nr.cur)

\* a call to which rules 2, 3 and 5 all apply
C19_Witness ==
    /\ nr.cur.made /\ Applicable(nr.cur) = {2, 3, 5}
    /\ nr.cur.label = <<"My shop">>

SameInputs(c1, c2) ==
    /\ c1.process_name = c2.process_name /\ c1.project_folder = c2.project_folder
    /\ c1.app_name = c2.app_name /\ c1.description = c2.description

C37_GenericNameGetsParentPrefix ==
    (/\ nr.cur.made
     /\ nr.cur.process_name \notin DOMAIN SYSTEM_SERVICES
     /\ nr.cur.description = <<>>
     /\ Lower(nr.cur.app_name) \in GENERIC_APP_NAMES
     /\ HasPath(nr.cur.project_folder) /\ Slashes(nr.cur.project_folder) # {})
    => nr.cur.label = LastSegment(ParentPath(nr.cur.project_folder))
                          \o <<"/">> \o nr.cur.app_name

C37_Witness ==
    /\ nr.cur.made /\ nr.cur.process_name = <<"node">> /\ nr.cur.description = <<>>
    /\ nr.cur.app_name = <<"api">>
    /\ nr.cur.project_folder = <<"a", "/", "ws", "/", "api">>
    /\ nr.cur.label = <<"ws", "/", "api">>

(* ---------------------------- discovery claims ------------------------- *)
\* the first source, in the order manifest, build descriptor, docstring,
\* README, that lies in one of the first n directories
FirstWithin(d, n) ==
    IF d.manifest \cap 0..(n - 1) # {} THEN "manifest"
    ELSE IF d.build \cap 0..(n - 1) # {} THEN "build"
    ELSE IF d.docstring \cap 0..(n - 1) # {} THEN "docstring"
    ELSE IF d.readme \cap 0..(n - 1) # {} THEN "readme"
    ELSE "None"

\* C38: every source (manifest, build descriptor, docstring, README) is looked
\* for in the working directory and its ancestors up to 5 levels, found when
\* it lies within them and not when it lies further up; the sources are tried
\* in that order and the first found wins.
C38_EverySourceSearchedFiveLevels ==
    nr.disc.made =>
        /\ nr.disc.description = FirstWithin(nr.disc, NameSearchDirs)
        /\ nr.disc.app_name = "name" <=> nr.disc.manifest \cap 0..(NameSearchDirs - 1) # {}

(* ----------------------------- run_once claims ------------------------- *)
\* C22: in run_once a number above the configured end port is taken as a
\* process id to terminate and a number within the configured range as a
\* port to resolve, whatever the configured range is.
C22_EntryClassifiedByRange ==
    ro.treat # "none" =>
        /\ ro.value > ro.range.hi => ro.treat = "pid"
        /\ (ro.range.lo <= ro.value /\ ro.value <= ro.range.hi) => ro.treat = "port"

\* C40: in run_once, in the basic monitor's interactive_mode, and in the
\* enhanced monitor's kill-all and quick_view, kill_process is called for a
\* termination the operator chose only after the confirmation was answered
\* yes; a declined confirmation is followed by no call.
C40_KillOnlyAfterYes ==
    (ro.treat # "manage") =>
        /\ ro.killed # <<>> => ro.confirmed = "yes"
        /\ ro.confirmed = "no" => ro.killed = <<>>

C40_Witness ==
    /\ ro.handler = "interactive_session" /\ ro.treat = "all" /\ ro.pc = "asked"
    /\ ro.confirmed = "yes" /\ ro.killed = <<1, 2>>

(* ------------------------- kill_process claims ------------------------- *)
SentSigs(k, via) == {i \in 1..Len(k.sent) : k.sent[i].via \in via}

\* C7: without the force flag SIGKILL is sent only after SIGTERM went to the
\* same pid, the grace period elapsed and the liveness check found the
\* process existing.
C7_ForceOnlyAfterGrace ==
    \A i \in 1..Len(kp.sent) :
        (~kp.force /\ kp.sent[i].sig = SIGKILL)
        => /\ \E j \in 1..(i - 1) : /\ kp.sent[j].sig = SIGTERM
                                    /\ kp.sent[j].pid = kp.sent[i].pid
           /\ kp.waited >= GraceSeconds
           /\ kp.seen_alive

C7_Witness ==
    /\ kp.pc = "ret" /\ ~kp.force
    /\ \E i \in 1..Len(kp.sent) : kp.sent[i].sig = SIGKILL

\* C8: in the basic monitor, whenever SIGTERM was delivered (directly or by
\* sudo) and the process still exists, SIGKILL is sent before the return.
C8_SurvivorIsForceKilled ==
    (kp.variant = "basic" /\ kp.pc = "ret" /\ kp.alive
     /\ \E i \in 1..Len(kp.sent) : kp.sent[i].sig = SIGTERM)
    => \E i \in 1..Len(kp.sent) : kp.sent[i].sig = SIGKILL

\* C9: a refused direct signal is retried exactly once through sudo with the
\* same signal; if that fails too the call returns False.
C9_SudoRetriesSameSignal ==
    /\ Len(kp.sudo) <= 1
    /\ \A i \in 1..Len(kp.sudo) : kp.sudo[i] = kp.refused
    /\ (kp.pc = "ret" /\ kp.refused # 0) => Len(kp.sudo) = 1
    /\ (kp.pc = "ret" /\ kp.refused # 0 /\ SentSigs(kp, {"sudo"}) = {})
        => kp.ret = "false"

\* C10: when os.kill finds the process gone (first signal or the forceful one
\* after the grace period) kill_process returns True.
C10_GoneIsSuccess ==
    kp.gone_seen => kp.pc = "ret" /\ kp.ret = "true"

C10_Witness ==
    /\ kp.gone_seen /\ kp.variant = "basic" /\ kp.waited >= GraceSeconds

\* C17: no message written to the console contains the elevation credential,
\* the message of a failed elevated kill attempt included.
C17_ConsoleNeverShowsCredential ==
    \A i \in 1..Len(kp.console) :
        \A j \in 1..Len(kp.console[i]) : kp.console[i][j] # sudo_password

====
